---- MODULE Spec2Model ----
(***************************************************************************)
(* Model of cortex/mapper.py: the volume <-> surface Mapper, its on-disk   *)
(* operator cache and the projection kernels.                              *)
(*                                                                         *)
(* Coordinates are held in quarter voxels (the integer c stands for c/4),  *)
(* so that half-integer and other fractional positions are exact.  A       *)
(* sparse operator is held in scipy's CSR layout: data, indices, indptr    *)
(* (0-based) and shape <<rows, cols>>.  The grid shape is <<Z, Y, X>>.     *)
(***************************************************************************)
EXTENDS Integers, Sequences, FiniteSets, TLC

VARIABLES
    now,        \* file-system clock (st_mtime resolution ticks)
    xfm,        \* content of the transform file (voxel-coordinate transform)
    xfmMtime,   \* st_mtime of the transform file
    epi,        \* shape of the reference volume, native axis order <<X, Y, Z>>
    fs,         \* cache files: path -> NoFile or [npz, mtime]
    mapper,     \* the Mapper object most recently constructed, or NoMapper
    saved,      \* history: the arguments of the last _savecache call
    hist,       \* history: what the last step was and what it found
    arg,        \* argument of the last call of a method or kernel
    ret         \* what that call returned or raised

lifeVars == <<now, xfm, xfmMtime, epi, fs, saved, hist>>
vars == <<now, xfm, xfmMtime, epi, fs, mapper, saved, hist, arg, ret>>

----------------------------------------------------------------------------
(* Bounds                                                                    *)

MaxTime == 3

----------------------------------------------------------------------------
(* numpy helpers                                                             *)

RECURSIVE SumSeq(_)
SumSeq(s) == IF s = <<>> THEN 0 ELSE Head(s) + SumSeq(Tail(s))

RECURSIVE Concat(_)
Concat(ss) == IF ss = <<>> THEN <<>> ELSE Head(ss) \o Concat(Tail(ss))

\* nib.get_shape()[:3][::-1]
Reverse3(s) == <<s[3], s[2], s[1]>>

\* np.prod(self.shape)
Prod3(s) == s[1] * s[2] * s[3]

\* mode='clip' of np.ravel_multi_index, one axis
Clip(i, n) == IF i < 0 THEN 0 ELSE IF i > n - 1 THEN n - 1 ELSE i

\* np.ravel_multi_index((i1, i2, i3), shape, mode='clip'), C order
RavelClip(idx, shape) ==
    Clip(idx[1], shape[1]) * (shape[2] * shape[3])
        + Clip(idx[2], shape[2]) * shape[3]
        + Clip(idx[3], shape[3])

\* np.ceil on a quarter-voxel coordinate
Ceil4(c) == -((-c) \div 4)

\* np.around on a quarter-voxel coordinate: round half to even
Around4(c) ==
    LET f == c \div 4
        r == c % 4
    IN  IF r < 2 THEN f
        ELSE IF r > 2 THEN f + 1
        ELSE IF f % 2 = 0 THEN f ELSE f + 1

----------------------------------------------------------------------------
(* scipy.sparse: csr_matrix((data, (i, j)), shape=...) builds a COO matrix   *)
(* and converts it to CSR, which orders each row by column and sums the      *)
(* entries that share a (row, column).                                       *)

HasEntry(E, i, j) == \E k \in 1..Len(E) : E[k].i = i /\ E[k].j = j

RECURSIVE DupSumFrom(_, _, _, _)
DupSumFrom(E, i, j, k) ==
    IF k > Len(E) THEN 0
    ELSE (IF E[k].i = i /\ E[k].j = j THEN E[k].v ELSE 0) + DupSumFrom(E, i, j, k + 1)

RECURSIVE DupLastFrom(_, _, _, _)
DupLastFrom(E, i, j, k) ==
    IF k < 1 THEN 0
    ELSE IF E[k].i = i /\ E[k].j = j THEN E[k].v ELSE DupLastFrom(E, i, j, k - 1)

\* a conversion that keeps only the last of the entries sharing a cell
DupKeepLast(E, i, j) == DupLastFrom(E, i, j, Len(E))

DupSum(E, i, j) == DupSumFrom(E, i, j, 1)

RECURSIVE RowPairs(_, _, _, _)
RowPairs(E, i, j, ncols) ==
    LET later == {c \in {E[k].j : k \in 1..Len(E)} :
                    c >= j /\ c < ncols /\ HasEntry(E, i, c)}
    IN  IF later = {} THEN <<>>
        ELSE LET c == CHOOSE c \in later : \A d \in later : c <= d
             IN  <<[j |-> c, v |-> DupSum(E, i, c)]>> \o RowPairs(E, i, c + 1, ncols)

RECURSIVE IndPtr(_, _)
IndPtr(rows, k) ==
    IF k = 0 THEN <<0>>
    ELSE LET p == IndPtr(rows, k - 1) IN Append(p, p[k] + Len(rows[k]))

CsrFromRows(rows, ncols) ==
    LET n == Len(rows)
        flat == Concat(rows)
    IN  [data    |-> [k \in 1..Len(flat) |-> flat[k].v],
         indices |-> [k \in 1..Len(flat) |-> flat[k].j],
         indptr  |-> IndPtr(rows, n),
         shape   |-> <<n, ncols>>]

CooToCsr(E, nrows, ncols) ==
    CsrFromRows([r \in 1..nrows |-> RowPairs(E, r - 1, 0, ncols)], ncols)

\* dtype=bool of the constructor
AsBool(m) == [m EXCEPT !.data = [k \in 1..Len(m.data) |-> m.data[k] # 0]]

\* row r (0-based) of a CSR matrix as its stored <<column, value>> pairs
CsrRow(m, r) ==
    [k \in 1..(m.indptr[r + 2] - m.indptr[r + 1]) |->
        [j |-> m.indices[m.indptr[r + 1] + k], v |-> m.data[m.indptr[r + 1] + k]]]

----------------------------------------------------------------------------
(* Nearest._getmask                                                          *)

\* np.around alone, without the np.where on exact halves
RoundHalfEven(c) == Around4(c)

\* np.where(np.mod(coords, 2) == 0.5, np.ceil(coords), np.around(coords))
RoundCoord(c) == IF c % 8 = 2 THEN Ceil4(c) ELSE Around4(c)

NearestValid(r, shape) ==
    /\ 0 <= r[1] /\ r[1] < shape[3]
    /\ 0 <= r[2] /\ r[2] < shape[2]
    /\ 0 <= r[3] /\ r[3] < shape[1]

RECURSIVE NearestEntries(_, _, _)
NearestEntries(coords, shape, v) ==
    IF v > Len(coords) THEN <<>>
    ELSE LET r == <<RoundCoord(coords[v][1]), RoundCoord(coords[v][2]),
                    RoundCoord(coords[v][3])>>
             ravelidx == RavelClip(<<r[3], r[2], r[1]>>, shape)
         IN  (IF NearestValid(r, shape)
                 THEN <<[i |-> v - 1, j |-> ravelidx, v |-> 1]>>
                 ELSE <<>>)
             \o NearestEntries(coords, shape, v + 1)

Nearest_getmask(coords, shape) ==
    AsBool(CooToCsr(NearestEntries(coords, shape, 1), Len(coords), Prod3(shape)))

----------------------------------------------------------------------------
(* Collaborators: the surface database and the geometry library              *)

NoFile == [npz |-> <<>>, mtime |-> -1]
NoMapper == [cachefile |-> <<>>]

\* surfs.getVTK(subject, 'fiducial', merge=False, nudge=False): two hemispheres
FidPts == << << <<0, 0, 0>>, <<6, 0, 0>> >>, << <<4, 0, 0>> >> >>

\* the transforms a transform file may hold (translations, quarter voxels)
XfmSet == {<<0, 0, 0>>, <<2, 0, 0>>, <<-4, 0, 0>>}

\* the shapes the reference volume may have, native order <<X, Y, Z>>
EpiShapes == {<<2, 1, 1>>, <<3, 1, 1>>}

\* polyutils.transform(coord, pts)
Transform(coord, pts) ==
    [v \in 1..Len(pts) |->
        <<pts[v][1] + coord[1], pts[v][2] + coord[2], pts[v][3] + coord[3]>>]

----------------------------------------------------------------------------
(* Mapper.__init__: the cache key                                            *)

\* str(v) of a keyword value (small non-negative integers)
Str(v) ==
    CASE v = 0 -> "0" [] v = 1 -> "1" [] v = 2 -> "2" [] v = 3 -> "3"
      [] v = 4 -> "4" [] v = 5 -> "5" [] OTHER -> "n"

\* '%s%s' % (k, str(v)) joined by '_', in the order kwargs.items() yields
RECURSIVE JoinKwds(_)
JoinKwds(kwargs) ==
    IF kwargs = <<>> THEN <<>>
    ELSE <<kwargs[1][1], Str(kwargs[1][2])>>
            \o (IF Len(kwargs) > 1 THEN <<"_">> ELSE <<>>)
            \o JoinKwds(Tail(kwargs))

PType(cls, kwargs) ==
    LET kwds == JoinKwds(kwargs)
    IN  IF Len(kwds) > 0 THEN <<cls, "_">> \o kwds ELSE <<cls>>

\* fnames['projcache'].format(xfmname=xfmname, projection=ptype)
CacheFile(cls, xfmname, kwargs) == [xfmname |-> xfmname, projection |-> PType(cls, kwargs)]

----------------------------------------------------------------------------
(* Mapper.__init__, _recache and _savecache for a Nearest mapper             *)

XfmName == "xfm"

NearestCache == CacheFile("nearest", XfmName, <<>>)

CachePaths == {NearestCache}

Idle == [op |-> "env", recache |-> FALSE, pre |-> NoFile, xmtime |-> 0, path |-> "none"]

\* the test of line 34 with the mtime comparison left out
CacheStale_IgnoreMtime(recache, amtime, xmtime) == recache

\* recache or os.stat(self.cachefile).st_mtime < os.stat(xfmfile).st_mtime
CacheStale(recache, amtime, xmtime) == recache \/ amtime < xmtime

\* np.savez with the right hemisphere's shape taken from the left one
Savez_LeftShapeTwice(left, right) ==
    [left_data  |-> left.data,  left_indices  |-> left.indices,
     left_indptr  |-> left.indptr,  left_shape  |-> left.shape,
     right_data |-> right.data, right_indices |-> right.indices,
     right_indptr |-> right.indptr, right_shape |-> left.shape]

\* the archive np.savez writes
Savez(left, right) ==
    [left_data  |-> left.data,  left_indices  |-> left.indices,
     left_indptr  |-> left.indptr,  left_shape  |-> left.shape,
     right_data |-> right.data, right_indices |-> right.indices,
     right_indptr |-> right.indptr, right_shape |-> right.shape]

\* sparse.csr_matrix((data, indices, indptr), shape=...) for both hemispheres
LoadMasks(npz) ==
    << [data |-> npz.left_data, indices |-> npz.left_indices,
        indptr |-> npz.left_indptr, shape |-> npz.left_shape],
       [data |-> npz.right_data, indices |-> npz.right_indices,
        indptr |-> npz.right_indptr, shape |-> npz.right_shape] >>

\* Mapper._recache: one operator per hemisphere of the fiducial surface
Recache(coord, shape) ==
    [h \in 1..2 |-> Nearest_getmask(Transform(coord, FidPts[h]), shape)]

MapperOf(cf, shape, masks) ==
    [cachefile |-> cf, shape |-> shape, masks |-> masks,
     nverts |-> masks[1].shape[1] + masks[2].shape[1], idxmap |-> <<>>]

Construct(recache) ==
    LET cf    == NearestCache
        shape == Reverse3(epi)
        reuse == fs[cf] # NoFile /\ ~CacheStale(recache, fs[cf].mtime, xfmMtime)
        built == Recache(xfm, shape)
    IN  /\ IF reuse
              THEN /\ mapper' = MapperOf(cf, shape, LoadMasks(fs[cf].npz))
                   /\ UNCHANGED <<fs, saved>>
              ELSE /\ mapper' = MapperOf(cf, shape, built)
                   /\ fs' = [fs EXCEPT ![cf] =
                                [npz |-> Savez(built[1], built[2]), mtime |-> now]]
                   /\ saved' = [left |-> built[1], right |-> built[2],
                                nverts |-> built[1].shape[1] + built[2].shape[1]]
        /\ hist' = [op |-> "construct", recache |-> recache, pre |-> fs[cf],
                    xmtime |-> xfmMtime, path |-> IF reuse THEN "load" ELSE "recache"]
        /\ UNCHANGED <<now, xfm, xfmMtime, epi, arg, ret>>

(* The environment: the clock, the transform file, the reference volume and  *)
(* the cache file's own metadata.                                            *)

Tick ==
    /\ now < MaxTime
    /\ now' = now + 1
    /\ hist' = Idle
    /\ UNCHANGED <<xfm, xfmMtime, epi, fs, mapper, saved, arg, ret>>

WriteXfm(x) ==
    /\ xfm' = x
    /\ xfmMtime' = now
    /\ hist' = Idle
    /\ UNCHANGED <<now, epi, fs, mapper, saved, arg, ret>>

ReplaceEpi(s) ==
    /\ s # epi
    /\ epi' = s
    /\ hist' = Idle
    /\ UNCHANGED <<now, xfm, xfmMtime, fs, mapper, saved, arg, ret>>

Utime(t) ==
    /\ fs[NearestCache] # NoFile
    /\ fs' = [fs EXCEPT ![NearestCache].mtime = t]
    /\ hist' = Idle
    /\ UNCHANGED <<now, xfm, xfmMtime, epi, mapper, saved, arg, ret>>

RemoveCache ==
    /\ fs[NearestCache] # NoFile
    /\ fs' = [fs EXCEPT ![NearestCache] = NoFile]
    /\ hist' = Idle
    /\ UNCHANGED <<now, xfm, xfmMtime, epi, mapper, saved, arg, ret>>

NoSave == [left |-> <<>>, right |-> <<>>, nverts |-> 0]

Init ==
    /\ now = 0
    /\ xfm \in XfmSet
    /\ xfmMtime = 0
    /\ epi \in EpiShapes
    /\ fs = [p \in CachePaths |-> NoFile]
    /\ mapper = NoMapper
    /\ saved = NoSave
    /\ hist = Idle
    /\ arg = <<>>
    /\ ret = <<>>

Next ==
    \/ \E r \in BOOLEAN : Construct(r)
    \/ Tick
    \/ \E x \in XfmSet : WriteXfm(x)
    \/ \E s \in EpiShapes : ReplaceEpi(s)
    \/ \E t \in 0..MaxTime : Utime(t)
    \/ RemoveCache

Spec == Init /\ [][Next]_vars

----------------------------------------------------------------------------
(* Claims on construction and the cache                                      *)

HistValid == hist.pre # NoFile /\ ~hist.recache /\ hist.pre.mtime >= hist.xmtime

\* C1: a construction reuses the archive exactly when the archive could be
\* opened, recache is false and the archive's mtime is not older than the
\* transform file's; in every other case it runs _recache, which rebuilds both
\* operators from the current transform and overwrites the archive.  In
\* particular a stale archive is never the source of the operators.
C1_ReuseIffValid ==
    hist.op = "construct" =>
        /\ (hist.path = "load") <=> HistValid
        /\ (hist.path = "recache") <=> ~HistValid
        /\ HistValid =>
              /\ mapper.masks = LoadMasks(hist.pre.npz)
              /\ fs[mapper.cachefile] = hist.pre
        /\ ~HistValid =>
              /\ mapper.masks = Recache(xfm, mapper.shape)
              /\ fs[mapper.cachefile].npz = Savez(mapper.masks[1], mapper.masks[2])
              /\ fs[mapper.cachefile].mtime = now

\* a construction with recache=False found an archive older than the transform
\* whose content differs from what the rebuild wrote
C1_Witness ==
    /\ hist.op = "construct"
    /\ ~hist.recache
    /\ hist.pre # NoFile
    /\ hist.pre.mtime < hist.xmtime
    /\ hist.path = "recache"
    /\ hist.pre.npz # fs[mapper.cachefile].npz

\* C2: a construction that takes the cache-load path holds operators whose data,
\* indices, indptr and shape are those of the pair last written by _savecache,
\* for both hemispheres, and the same nverts.
C2_RoundTrip ==
    (hist.op = "construct" /\ hist.path = "load") =>
        /\ mapper.masks[1] = saved.left
        /\ mapper.masks[2] = saved.right
        /\ mapper.nverts = saved.nverts

\* a load of an archive with stored entries and differing hemispheres
C2_Witness ==
    /\ hist.op = "construct"
    /\ hist.path = "load"
    /\ Len(mapper.masks[1].data) > 0
    /\ mapper.masks[1].shape # mapper.masks[2].shape

\* C10: after any construction both operators have prod(self.shape) columns and
\* nverts is the sum of their row counts.
C10_ShapeInvariant ==
    mapper # NoMapper =>
        /\ mapper.masks[1].shape[2] = mapper.masks[2].shape[2]
        /\ mapper.masks[1].shape[2] = Prod3(mapper.shape)
        /\ mapper.nverts = mapper.masks[1].shape[1] + mapper.masks[2].shape[1]

----------------------------------------------------------------------------
(* The cache key of two constructions (Mapper.__init__, lines 17-25)         *)

MaxKwVal == 2

KwNames == {"window", "renorm", "npts"}

KwPairs == {<<n, v>> : n \in KwNames, v \in 1..MaxKwVal}

\* keyword arguments in the order the caller wrote them, each name at most once
KwargsSeqs ==
    {<<>>}
        \cup {<<p>> : p \in KwPairs}
        \cup {s \in {<<p, q>> : p \in KwPairs, q \in KwPairs} : s[1][1] # s[2][1]}

KwSet(kwargs) == {kwargs[k] : k \in 1..Len(kwargs)}

IdleLife ==
    /\ now = 0
    /\ xfm = <<0, 0, 0>>
    /\ xfmMtime = 0
    /\ epi = <<2, 1, 1>>
    /\ fs = [p \in CachePaths |-> NoFile]
    /\ saved = NoSave
    /\ hist = Idle

InitKey ==
    /\ IdleLife
    /\ mapper = NoMapper
    /\ arg \in {[cls |-> c, first |-> a, second |-> b] :
                    c \in {"lanczos", "convexnn"}, a \in KwargsSeqs, b \in KwargsSeqs}
    /\ ret = <<>>

\* two mappers of one class are constructed; each computes its cache file
ConstructTwice ==
    /\ ret = <<>>
    /\ ret' = <<CacheFile(arg.cls, XfmName, arg.first),
                CacheFile(arg.cls, XfmName, arg.second)>>
    /\ UNCHANGED <<mapper, arg>>
    /\ UNCHANGED lifeVars

NextKey == ConstructTwice

SpecKey == InitKey /\ [][NextKey]_vars

\* C3: two constructions of the same kernel class with the same parameter
\* name/value pairs, in whatever keyword order, resolve to the same cache file.
C3_KeyIgnoresOrder ==
    (ret # <<>> /\ KwSet(arg.first) = KwSet(arg.second)) => ret[1] = ret[2]

----------------------------------------------------------------------------
(* Trilinear._getmask.  Weights are held in 64ths (products of three         *)
(* quarter-voxel fractions).                                                 *)

\* np.modf: the integral part, truncated towards zero ...
Trunc4(c) == IF c >= 0 THEN c \div 4 ELSE -((-c) \div 4)

\* ... and the fractional part, which has the sign of c; x[x < 0] = 0
Frac4(c) == LET f == c - 4 * Trunc4(c) IN IF f < 0 THEN 0 ELSE f

RECURSIVE TrilinearEntries(_, _, _)
TrilinearEntries(coords, shape, v) ==
    IF v > Len(coords) THEN <<>>
    ELSE LET c  == coords[v]
             fx == Trunc4(c[1])   fy == Trunc4(c[2])   fz == Trunc4(c[3])
             cx == fx + 1         cy == fy + 1         cz == fz + 1
             x  == Frac4(c[1])    y  == Frac4(c[2])    z  == Frac4(c[3])
             i000 == RavelClip(<<fz, fy, fx>>, shape)
             i100 == RavelClip(<<fz, fy, cx>>, shape)
             i010 == RavelClip(<<fz, cy, fx>>, shape)
             i001 == RavelClip(<<cz, fy, fx>>, shape)
             i101 == RavelClip(<<cz, fy, cx>>, shape)
             i011 == RavelClip(<<cz, cy, fx>>, shape)
             i110 == RavelClip(<<fz, cy, cx>>, shape)
             i111 == RavelClip(<<cz, cy, cx>>, shape)
             v000 == (4 - x) * (4 - y) * (4 - z)
             v100 == x * (4 - y) * (4 - z)
             v010 == (4 - x) * y * (4 - z)
             v110 == x * y * (4 - z)
             v001 == (4 - x) * (4 - y) * z
             v101 == x * (4 - y) * z
             v011 == (4 - x) * y * z
             v111 == x * y * z
             j    == <<i000, i100, i010, i001, i101, i011, i110, i111>>
             data == <<v000, v100, v010, v001, v101, v011, v110, v111>>
         IN  [k \in 1..8 |-> [i |-> v - 1, j |-> j[k], v |-> data[k]]]
             \o TrilinearEntries(coords, shape, v + 1)

Trilinear_getmask(coords, shape) ==
    CooToCsr(TrilinearEntries(coords, shape, 1), Len(coords), Prod3(shape))

----------------------------------------------------------------------------
(* Lanczos._getmask.  A floating-point value is [k, n, d]: the number n/d,   *)
(* or NaN, or an infinity of sign n.                                         *)

Num(n)  == [k |-> "num", n |-> n, d |-> 1]
NaN     == [k |-> "nan", n |-> 0, d |-> 1]
Inf(sg) == [k |-> "inf", n |-> sg, d |-> 1]

Abs(n) == IF n < 0 THEN -n ELSE n

FpMul(a, b) == IF a.k = "nan" \/ b.k = "nan" THEN NaN ELSE Num(a.n * b.n)

RECURSIVE FpSum(_)
FpSum(vals) ==
    IF vals = <<>> THEN Num(0)
    ELSE LET r == FpSum(Tail(vals))
         IN  IF Head(vals).k = "nan" \/ r.k = "nan" THEN NaN ELSE Num(Head(vals).n + r.n)

\* vals /= vals.sum(), one element: IEEE division, no test of the divisor
FpDiv(a, t) ==
    IF a.k = "nan" \/ t.k = "nan" THEN NaN
    ELSE IF t.n = 0 THEN (IF a.n = 0 THEN NaN ELSE Inf(IF a.n < 0 THEN -1 ELSE 1))
    ELSE [k |-> "num", n |-> a.n, d |-> t.n]

\* np.nonzero: NaN counts as nonzero
FpNonZero(a) == a.k # "num" \/ a.n # 0

(* lanczos(x) at x = d/4.  Outside |x| < window the value is 0.  At x = 0 the *)
(* expression is sin(0) * sin(0) * (window / 0.0) = 0 * 0 * inf = NaN.        *)
(* Elsewhere the value is tabulated in a unit chosen per window so that it is *)
(* an integer: window 1, unit 4/(9 pi^2): 18, 9, 2 at |x| = 1/4, 1/2, 3/4;    *)
(* window 2, unit 2 sqrt(2)/(9 pi^2), half-odd x only: 9 at 1/2, -1 at 3/2.   *)
LanczosFn(d, window) ==
    IF Abs(d) >= 4 * window THEN Num(0)
    ELSE IF d = 0 THEN NaN
    ELSE IF window = 1
        THEN CASE Abs(d) = 1 -> Num(18) [] Abs(d) = 2 -> Num(9) [] Abs(d) = 3 -> Num(2)
        ELSE CASE window = 2 /\ Abs(d) = 2 -> Num(9) [] window = 2 /\ Abs(d) = 6 -> Num(-1)

\* Lx[:, v], Ly[:, v] or Lz[:, v]: the taps of one axis of extent n
Taps(c, n, window) == [k \in 1..n |-> LanczosFn(c - 4 * (k - 1), window)]

\* product(iz, iy, ix) in its own order, which is the order of the flat index
RECURSIVE LanczosVals(_, _, _, _, _)
LanczosVals(Lz, Ly, Lx, shape, j) ==
    IF j >= Prod3(shape) THEN <<>>
    ELSE LET z == j \div (shape[2] * shape[3])
             y == (j \div shape[3]) % shape[2]
             x == j % shape[3]
         IN  (IF FpNonZero(Lz[z + 1]) /\ FpNonZero(Ly[y + 1]) /\ FpNonZero(Lx[x + 1])
                 THEN <<[j |-> j, v |-> FpMul(FpMul(Lz[z + 1], Ly[y + 1]), Lx[x + 1])]>>
                 ELSE <<>>)
             \o LanczosVals(Lz, Ly, Lx, shape, j + 1)

\* one pass of the loop over v; an empty product raises ValueError, which is
\* caught and leaves the row empty
LanczosRow(c, shape, window, renorm) ==
    LET Lx == Taps(c[1], shape[3], window)
        Ly == Taps(c[2], shape[2], window)
        Lz == Taps(c[3], shape[1], window)
        vals == LanczosVals(Lz, Ly, Lx, shape, 0)
        total == FpSum([k \in 1..Len(vals) |-> vals[k].v])
    IN  IF renorm
           THEN [k \in 1..Len(vals) |-> [j |-> vals[k].j, v |-> FpDiv(vals[k].v, total)]]
           ELSE vals

Lanczos_getmask(coords, shape, window, renorm) ==
    CsrFromRows([v \in 1..Len(coords) |-> LanczosRow(coords[v], shape, window, renorm)],
                Prod3(shape))

----------------------------------------------------------------------------
(* The kernels on their own: one hemisphere's coordinates and a grid shape   *)

CoordMargin == 3
MaxExtent == 3

KernelShapes == {<<1, 2, MaxExtent>>, <<2, 2, 2>>}

\* quarter-voxel positions from CoordMargin quarters below the grid to
\* CoordMargin quarters above it
AxisVals(n) == (0 - CoordMargin)..(4 * n + CoordMargin)

VertexCoords(shape) ==
    {<<x, y, z>> : x \in AxisVals(shape[3]), y \in AxisVals(shape[2]), z \in AxisVals(shape[1])}

\* a second vertex, so that an operator has more than one row
Companion == <<2, 4, 1>>

KernelArgs ==
    {[kernel |-> k, coords |-> <<c, Companion>>, shape |-> sh, window |-> 0, renorm |-> FALSE] :
        k \in {"nearest", "trilinear"},
        sh \in KernelShapes, c \in UNION {VertexCoords(s) : s \in KernelShapes}}
    \cup {[kernel |-> "nearest", coords |-> << <<8, 12, 16>>, Companion >>,
           shape |-> <<10, 10, 10>>, window |-> 0, renorm |-> FALSE]}

\* window 1 at every quarter position; window 2 at half-odd positions
LanczosArgs ==
    {[kernel |-> "lanczos", coords |-> <<c, <<2, 2, 2>> >>, shape |-> sh, window |-> w, renorm |-> r] :
        sh \in KernelShapes, w \in {1, 2}, r \in BOOLEAN,
        c \in {p \in UNION {VertexCoords(s) : s \in KernelShapes} :
                    p[1] % 4 = 2 /\ p[2] % 4 = 2 /\ p[3] % 4 = 2}}
    \cup
    {[kernel |-> "lanczos", coords |-> <<c, <<2, 2, 2>> >>, shape |-> sh, window |-> 1, renorm |-> r] :
        sh \in KernelShapes, r \in BOOLEAN,
        c \in {p \in UNION {VertexCoords(s) : s \in KernelShapes} :
                    p[1] % 2 = 0 /\ p[2] % 2 = 0 /\ p[3] % 2 = 0}}

InitKernel ==
    /\ IdleLife
    /\ mapper = NoMapper
    /\ arg \in KernelArgs \cup LanczosArgs
    /\ ret = <<>>

CallNearest ==
    /\ ret = <<>> /\ arg.kernel = "nearest"
    /\ ret' = [mask |-> Nearest_getmask(arg.coords, arg.shape)]
    /\ UNCHANGED <<mapper, arg>>
    /\ UNCHANGED lifeVars

CallTrilinear ==
    /\ ret = <<>> /\ arg.kernel = "trilinear"
    /\ ret' = [mask |-> Trilinear_getmask(arg.coords, arg.shape)]
    /\ UNCHANGED <<mapper, arg>>
    /\ UNCHANGED lifeVars

CallLanczos ==
    /\ ret = <<>> /\ arg.kernel = "lanczos"
    /\ ret' = [mask |-> Lanczos_getmask(arg.coords, arg.shape, arg.window, arg.renorm)]
    /\ UNCHANGED <<mapper, arg>>
    /\ UNCHANGED lifeVars

NextKernel == CallNearest \/ CallTrilinear \/ CallLanczos

SpecKernel == InitKernel /\ [][NextKernel]_vars

Returned(kernel) == ret # <<>> /\ arg.kernel = kernel

\* floor(c + 1/2) of a quarter-voxel coordinate
FloorHalfUp(c) == (c + 2) \div 4

\* C7: every component is rounded to floor(c + 1/2); a vertex whose rounded
\* position lies in the grid has exactly one entry, True, at rz*(Y*X) + ry*X + rx,
\* and any other vertex has an empty row.
C7_NearestRow ==
    Returned("nearest") =>
        \A v \in 1..Len(arg.coords) :
            LET c  == arg.coords[v]
                rx == FloorHalfUp(c[1])
                ry == FloorHalfUp(c[2])
                rz == FloorHalfUp(c[3])
                sh == arg.shape
                inside == /\ 0 <= rx /\ rx < sh[3]
                          /\ 0 <= ry /\ ry < sh[2]
                          /\ 0 <= rz /\ rz < sh[1]
            IN  /\ ret.mask.shape = <<Len(arg.coords), sh[1] * sh[2] * sh[3]>>
                /\ CsrRow(ret.mask, v - 1) =
                      IF inside
                         THEN <<[j |-> rz * (sh[2] * sh[3]) + ry * sh[3] + rx, v |-> TRUE]>>
                         ELSE <<>>

\* the vertex (2, 3, 4) of a (10, 10, 10) grid got its single entry at 432
C7_Witness ==
    /\ Returned("nearest")
    /\ arg.shape = <<10, 10, 10>>
    /\ arg.coords[1] = <<8, 12, 16>>
    /\ CsrRow(ret.mask, 0) = <<[j |-> 432, v |-> TRUE]>>

StrictlyInside(c, sh) ==
    /\ 0 < c[1] /\ c[1] < 4 * sh[3]
    /\ 0 < c[2] /\ c[2] < 4 * sh[2]
    /\ 0 < c[3] /\ c[3] < 4 * sh[1]

RowTotal(row) == SumSeq([k \in 1..Len(row) |-> row[k].v])

\* C8: the row of a vertex strictly inside the grid has non-negative weights
\* that sum to 1 (64/64), also when clipped corners fall on one voxel.
C8_TrilinearRowSum ==
    Returned("trilinear") =>
        \A v \in 1..Len(arg.coords) :
            StrictlyInside(arg.coords[v], arg.shape) =>
                LET row == CsrRow(ret.mask, v - 1)
                IN  /\ \A k \in 1..Len(row) : row[k].v >= 0
                    /\ RowTotal(row) = 64

\* a vertex in the last cell of every axis, off the voxel centre: the ceil
\* corners are clipped onto the floor corners and the eight weights are summed
\* into a single entry
C8_Witness ==
    /\ Returned("trilinear")
    /\ arg.shape = <<2, 2, 2>>
    /\ arg.coords[1] = <<5, 6, 7>>
    /\ CsrRow(ret.mask, 0) = <<[j |-> 7, v |-> 64]>>

\* C9: renormalisation is guarded, so no operator the Lanczos kernel builds
\* with renorm=True holds a non-finite (NaN or infinite) weight.
C9_NoNonFinite ==
    (Returned("lanczos") /\ arg.renorm) =>
        \A k \in 1..Len(ret.mask.data) : ret.mask.data[k].k = "num"

----------------------------------------------------------------------------
(* numpy arrays for __call__ and backwards: [shape, flat], C order           *)

RECURSIVE ProdSeq(_)
ProdSeq(s) == IF s = <<>> THEN 1 ELSE Head(s) * ProdSeq(Tail(s))

Range(s) == {s[k] : k \in 1..Len(s)}

Last(s) == s[Len(s)]

Front(s) == SubSeq(s, 1, Len(s) - 1)

Min(a, b) == IF a < b THEN a ELSE b

RECURSIVE PickLast(_, _, _, _, _)
PickLast(flat, last, lo, hi, k) ==
    IF k > Len(flat) THEN <<>>
    ELSE (IF lo <= (k - 1) % last /\ (k - 1) % last < hi THEN <<flat[k]>> ELSE <<>>)
            \o PickLast(flat, last, lo, hi, k + 1)

\* data[..., lo:hi]
SliceLast(a, lo, hi) ==
    LET last == Last(a.shape)
        l == Min(lo, last)
        h == Min(hi, last)
    IN  [shape |-> Append(Front(a.shape), IF h > l THEN h - l ELSE 0),
         flat  |-> PickLast(a.flat, last, l, h, 1)]

IndexError == [shape |-> <<>>, flat |-> <<>>, raised |-> "IndexError"]

\* a[..., idx] with an index array idx
TakeLast(a, idx) ==
    IF Len(a.shape) = 0 \/ \E i \in 1..Len(idx) : idx[i] >= Last(a.shape)
    THEN IndexError
    ELSE LET last == Last(a.shape)
             n == Len(idx)
             rows == IF last = 0 THEN 0 ELSE Len(a.flat) \div last
         IN  [shape |-> Append(Front(a.shape), n),
              flat  |-> [k \in 1..(rows * n) |->
                            a.flat[((k - 1) \div n) * last + idx[((k - 1) % n) + 1] + 1]],
              raised |-> "none"]

\* a.squeeze()
Squeeze(shape) == SelectSeq(shape, LAMBDA d : d # 1)

\* entry (r, j) of a CSR matrix, 0-based
CsrAt(m, r, j) ==
    LET row == CsrRow(m, r)
    IN  SumSeq([k \in 1..Len(row) |-> IF row[k].j = j THEN row[k].v ELSE 0])

\* m.sum(0)
ColSums(m) ==
    [c \in 1..m.shape[2] |-> SumSeq([r \in 1..m.shape[1] |-> CsrAt(m, r - 1, c - 1)])]

\* Mapper.mask, flat: (masks[0].sum(0) + masks[1].sum(0)).squeeze() != 0
MaskOf(m) ==
    LET a == ColSums(m.masks[1])
        b == ColSums(m.masks[2])
    IN  [c \in 1..m.masks[1].shape[2] |-> a[c] + b[c] # 0]

\* Mapper.hemimasks, flat
HemimasksOf(m) ==
    [h \in 1..2 |-> LET a == ColSums(m.masks[h])
                    IN  [c \in 1..Len(a) |-> a[c] # 0]]

CountTrue(b) == Cardinality({k \in 1..Len(b) : b[k]})

\* the 0-based rank of voxel c among the true voxels of a flat mask
RankIn(b, c) == Cardinality({k \in 1..(c - 1) : b[k]})

----------------------------------------------------------------------------
(* Mapper.__call__                                                           *)

Raised(branch, what) == [op |-> "call", branch |-> branch, raised |-> what, out |-> <<>>]

\* if self.nverts in data.shape
IsVertexData(m, data) == m.nverts \in Range(data.shape)

PassThrough(m, data) ==
    LET llen  == m.masks[1].shape[1]
        left  == SliceLast(data, 0, llen)
        right == SliceLast(data, llen, Last(data.shape))
    IN  IF m.idxmap # <<>>
        THEN LET l == TakeLast(left, m.idxmap[1])
                 r == TakeLast(right, m.idxmap[2])
             IN  IF l.raised # "none" \/ r.raised # "none"
                    THEN Raised("passthrough", "IndexError")
                    ELSE [op |-> "call", branch |-> "passthrough", raised |-> "none",
                          out |-> <<[shape |-> l.shape, flat |-> l.flat],
                                    [shape |-> r.shape, flat |-> r.flat]>>]
        ELSE [op |-> "call", branch |-> "passthrough", raised |-> "none",
              out |-> <<left, right>>]

\* norm, as a function voxel -> frame -> value, or a ValueError.  In the
\* scatter branch data.T is assigned to norm[mask]: it must broadcast to
\* (mask.sum(), frames), which an array of more than two axes whose trailing
\* extent exceeds 1 never does.
NormOf(m, d) ==
    LET msk   == MaskOf(m)
        nmask == CountTrue(msk)
        F     == d.shape[1]
        nvox  == Prod3(m.shape)
    IN  IF nmask \in Range(d.shape)
        THEN IF Len(d.shape) = 2 /\ d.shape[2] \in {nmask, 1}
             THEN [ok |-> TRUE, rows |-> nvox,
                   at |-> [c \in 1..nvox |-> [f \in 1..F |->
                            IF msk[c]
                            THEN d.flat[(f - 1) * d.shape[2]
                                        + (IF d.shape[2] = 1 THEN 0 ELSE RankIn(msk, c)) + 1]
                            ELSE 0]]]
             ELSE [ok |-> FALSE, rows |-> 0, at |-> <<>>]
        ELSE IF Len(d.shape) = 4
        THEN LET n == ProdSeq(Tail(d.shape))
             IN  [ok |-> TRUE, rows |-> n,
                  at |-> [c \in 1..n |-> [f \in 1..F |-> d.flat[(f - 1) * n + c]]]]
        ELSE [ok |-> FALSE, rows |-> 0, at |-> <<>>]

\* np.array(mask * norm).T.squeeze()
Mapped(op, norm, F) ==
    LET nv == op.shape[1]
    IN  [shape |-> Squeeze(<<F, nv>>),
         flat  |-> [k \in 1..(F * nv) |->
                      LET f == ((k - 1) \div nv) + 1
                          v == (k - 1) % nv
                      IN  SumSeq([c \in 1..op.shape[2] |-> CsrAt(op, v, c - 1) * norm.at[c][f]])]]

Project(m, data) ==
    LET d    == IF Len(data.shape) \in {1, 3}
                   THEN [shape |-> <<1>> \o data.shape, flat |-> data.flat]
                   ELSE data
        norm == NormOf(m, d)
    IN  IF ~norm.ok \/ norm.rows # m.masks[1].shape[2] \/ norm.rows # m.masks[2].shape[2]
        THEN Raised("project", "ValueError")
        ELSE LET m1 == Mapped(m.masks[1], norm, d.shape[1])
                 m2 == Mapped(m.masks[2], norm, d.shape[1])
             IN  IF m.idxmap # <<>>
                 THEN LET l == TakeLast(m1, m.idxmap[1])
                          r == TakeLast(m2, m.idxmap[2])
                      IN  IF l.raised # "none" \/ r.raised # "none"
                             THEN Raised("project", "IndexError")
                             ELSE [op |-> "call", branch |-> "project", raised |-> "none",
                                   out |-> <<[shape |-> l.shape, flat |-> l.flat],
                                             [shape |-> r.shape, flat |-> r.flat]>>]
                 ELSE [op |-> "call", branch |-> "project", raised |-> "none",
                       out |-> <<m1, m2>>]

Forward(m, data) == IF IsVertexData(m, data) THEN PassThrough(m, data) ELSE Project(m, data)

----------------------------------------------------------------------------
(* Mapper.backwards.  A boolean vector is held as 0/1, which is how it       *)
(* enters the product with the operator.                                     *)

RECURSIVE MaxSeq(_)
MaxSeq(s) == IF Len(s) = 1 THEN s[1]
             ELSE LET t == MaxSeq(Tail(s)) IN IF s[1] > t THEN s[1] ELSE t

\* z = np.zeros((n,), dtype=bool); z[idx] = True
Indicator(n, idx) == [v \in 1..n |-> IF \E i \in 1..Len(idx) : idx[i] = v - 1 THEN 1 ELSE 0]

BackRaised(what) == [op |-> "backwards", branch |-> "none", raised |-> what, out |-> <<>>]

\* np.array(data * mask).reshape(self.shape), flat
ProjBack(data, op) ==
    [c \in 1..op.shape[2] |-> SumSeq([v \in 1..op.shape[1] |-> data[v] * CsrAt(op, v - 1, c - 1)])]

BackOutput(m, branch, left, right) ==
    IF \/ Len(left) # m.masks[1].shape[1] \/ Len(right) # m.masks[2].shape[1]
       \/ m.masks[1].shape[2] # Prod3(m.shape) \/ m.masks[2].shape[2] # Prod3(m.shape)
    THEN BackRaised("ValueError")
    ELSE [op |-> "backwards", branch |-> branch, raised |-> "none",
          out |-> <<ProjBack(left, m.masks[1]), ProjBack(right, m.masks[2])>>]

Backwards(m, verts) ==
    LET nl == m.masks[1].shape[1]
        nr == m.masks[2].shape[1]
    IN  IF verts.kind = "pair"
        THEN IF Len(verts.a) = nl
             THEN BackOutput(m, "values", verts.a, verts.b)
             ELSE IF verts.a = <<>> THEN BackRaised("ValueError")
             ELSE IF MaxSeq(verts.a) < nl
             THEN IF \E i \in 1..Len(verts.b) : verts.b[i] >= nr
                  THEN BackRaised("IndexError")
                  ELSE BackOutput(m, "indices", Indicator(nl, verts.a), Indicator(nr, verts.b))
             ELSE BackRaised("ValueError")
        ELSE IF Len(verts.a) = m.nverts
             THEN BackOutput(m, "values", SubSeq(verts.a, 1, nl),
                             SubSeq(verts.a, nl + 1, Len(verts.a)))
             ELSE IF verts.a = <<>> THEN BackRaised("ValueError")
             ELSE IF MaxSeq(verts.a) < m.nverts
             THEN BackOutput(m, "indices",
                     Indicator(nl, SelectSeq(verts.a, LAMBDA i : i < nl)),
                     Indicator(nr, [k \in 1..Len(SelectSeq(verts.a, LAMBDA i : i >= nl)) |->
                                        SelectSeq(verts.a, LAMBDA i : i >= nl)[k] - nl]))
             ELSE BackRaised("ValueError")

----------------------------------------------------------------------------
(* The methods of a constructed mapper.  The operators are those of a        *)
(* windowed-sinc mapper on a (1, 1, 2) grid with two left and one right      *)
(* vertex; their weights, of either sign, are held as integers in an         *)
(* arbitrary unit.                                                           *)

MaxWeight == 1
MaxLen == 3
MaxIdx == 3

ApplyShape == <<1, 1, 2>>

Weights == (0 - MaxWeight)..MaxWeight

WeightRows == {<<a, b>> : a \in Weights, b \in Weights}

\* the stored (nonzero) cells of a dense matrix, row by row
DenseEntries(rows) ==
    Concat([r \in 1..Len(rows) |->
        Concat([c \in 1..Len(rows[r]) |->
            IF rows[r][c] # 0 THEN <<[i |-> r - 1, j |-> c - 1, v |-> rows[r][c]]>> ELSE <<>>])])

DenseToCsr(rows, ncols) == CooToCsr(DenseEntries(rows), Len(rows), ncols)

ApplyMappers ==
    {[MapperOf(CacheFile("lanczos", XfmName, <<>>), ApplyShape,
               <<DenseToCsr(<<l, <<0, 1>> >>, 2), DenseToCsr(<<r>>, 2)>>)
        EXCEPT !.idxmap = im] :
        l \in WeightRows, r \in WeightRows, im \in {<<>>, << <<1, 0>>, <<0>> >>}}

DataShapes ==
    {<<n>> : n \in 1..MaxLen}
        \cup {<<a, b>> : a \in 1..MaxLen, b \in 1..MaxLen}
        \cup {ApplyShape}
        \cup {<<f>> \o ApplyShape : f \in 1..MaxLen}

\* an array of the given shape with pairwise distinct values
DataOf(shape) == [shape |-> shape, flat |-> [k \in 1..ProdSeq(shape) |-> k]]

IdxArrays(maxlen) == UNION {[1..n -> 0..MaxIdx] : n \in 0..maxlen}

VertsInputs ==
    {[kind |-> "pair", a |-> a, b |-> b] : a \in IdxArrays(2), b \in IdxArrays(2)}
        \cup {[kind |-> "single", a |-> a, b |-> <<>>] : a \in IdxArrays(MaxLen)}

InitApply ==
    /\ IdleLife
    /\ mapper \in ApplyMappers
    /\ arg = <<>>
    /\ ret = <<>>

CallForward(shape) ==
    /\ ret = <<>>
    /\ arg' = DataOf(shape)
    /\ ret' = Forward(mapper, DataOf(shape))
    /\ UNCHANGED mapper
    /\ UNCHANGED lifeVars

CallBackwards(verts) ==
    /\ ret = <<>>
    /\ arg' = verts
    /\ ret' = Backwards(mapper, verts)
    /\ UNCHANGED mapper
    /\ UNCHANGED lifeVars

CallMask ==
    /\ ret = <<>>
    /\ arg' = <<>>
    /\ ret' = [op |-> "mask", branch |-> "none", raised |-> "none", out |-> MaskOf(mapper)]
    /\ UNCHANGED mapper
    /\ UNCHANGED lifeVars

CallHemimasks ==
    /\ ret = <<>>
    /\ arg' = <<>>
    /\ ret' = [op |-> "hemimasks", branch |-> "none", raised |-> "none",
               out |-> HemimasksOf(mapper)]
    /\ UNCHANGED mapper
    /\ UNCHANGED lifeVars

NextApply ==
    \/ \E sh \in DataShapes : CallForward(sh)
    \/ \E v \in VertsInputs : CallBackwards(v)
    \/ CallMask
    \/ CallHemimasks

SpecApply == InitApply /\ [][NextApply]_vars

Did(op) == ret # <<>> /\ ret.op = op

\* C4: __call__ passes data through exactly when its trailing axis equals
\* nverts, and then, with idxmap unset, returns (data[..., :L], data[..., L:])
\* unmodified; any other input is projected through the operators.
C4_PassThroughIffTrailing ==
    Did("call") =>
        /\ (ret.branch = "passthrough") <=> (Last(arg.shape) = mapper.nverts)
        /\ (ret.branch = "passthrough" /\ mapper.idxmap = <<>>) =>
              LET L == mapper.masks[1].shape[1]
              IN  ret.out = <<SliceLast(arg, 0, L), SliceLast(arg, L, Last(arg.shape))>>

\* some index of the input lies at or beyond the vertex count it is used with
OutOfRange(m, verts) ==
    IF verts.kind = "pair"
    THEN \/ \E i \in 1..Len(verts.a) : verts.a[i] >= m.masks[1].shape[1]
         \/ \E i \in 1..Len(verts.b) : verts.b[i] >= m.masks[2].shape[1]
    ELSE \E i \in 1..Len(verts.a) : verts.a[i] >= m.nverts

\* C5: backwards raises ValueError whenever the vertex indices hold a value at
\* or beyond the applicable vertex count.
C5_OutOfRangeRaises ==
    (Did("backwards") /\ OutOfRange(mapper, arg)) => ret.raised = "ValueError"

\* the columns in which the left or the right operator stores a nonzero weight
NonzeroColumns(m) ==
    {c \in 0..(m.masks[1].shape[2] - 1) :
        \E h \in 1..2 : \E k \in 1..Len(m.masks[h].data) :
            m.masks[h].indices[k] = c /\ m.masks[h].data[k] # 0}

\* C6: mask is true at a voxel exactly when that column is nonzero in the left
\* or the right operator, so its true count is the number of such columns.
C6_MaskCountsNonzeroColumns ==
    Did("mask") =>
        /\ CountTrue(ret.out) = Cardinality(NonzeroColumns(mapper))
        /\ \A c \in 1..Len(ret.out) : ret.out[c] <=> (c - 1) \in NonzeroColumns(mapper)

====
